---- MODULE Spec2Model ----
(***************************************************************************)
(* pocket-mcp: the embedding store (utils/embeddings.ts) and the           *)
(* similarity ranker (tools/search.ts, tools/workflow.ts) as a state       *)
(* machine.  One thread of control runs one tool call at a time; every     *)
(* await on the database or the embedding provider is a step whose         *)
(* outcome (success or failure) is chosen by the environment.              *)
(*                                                                         *)
(* Numbers: similarities and scores are fixed-point integers with SCALE    *)
(* units for 1.0; weights and thresholds are hundredths.  NaN is a         *)
(* distinguished value that every arithmetic operator propagates and every *)
(* comparison answers FALSE on, as in JavaScript.                          *)
(***************************************************************************)
EXTENDS Integers, Sequences, FiniteSets, TLC

(***************************************************************************)
(* Bounds of the model.                                                    *)
(***************************************************************************)
MaxCalls == 2          \* invocations started in one behaviour of Spec
MaxSearches == 1       \* searches started in one behaviour of RankSpec
MaxEmb == 3            \* stored embeddings in the initial states of RankSpec
MaxScored == 2         \* stored embeddings in the initial states of ScoreSpec
MaxTasks == 5          \* tasks created in TaskSpec
MaxSessions == 3       \* sessions created in SessionSpec

(***************************************************************************)
(* Program constants.                                                      *)
(***************************************************************************)
Retries == 3           \* pRetry retries
MinTimeout == 1000     \* pRetry minTimeout (ms)
MaxTimeout == 30000    \* pRetry maxTimeout (ms)
Factor == 2            \* pRetry factor

Model == "text-embedding-3-small"

(***************************************************************************)
(* Texts and what the provider and the digest make of them.                *)
(***************************************************************************)
Texts == {"a", "b"}

\* sha256(content), hex, first 16 characters: a digest, not the text.
hashContent(content) ==
    CASE content = "a" -> "ca978112ca1bbdca"
      [] content = "b" -> "3e23e8160039594a"
      [] OTHER -> "2e7d2c03a9507ae2"

\* The vector the provider answers with for a text (response.data[0].embedding).
ProviderVector(text) ==
    CASE text = "a" -> <<3, 4>>
      [] text = "b" -> <<4, 3>>
      [] OTHER -> <<0, 5>>

(***************************************************************************)
(* Errors of the embedding provider.                                       *)
(*   api    : instance of OpenAI.APIError                                  *)
(*   status : HTTP status (0, which no comparison of isRetryableError       *)
(*            accepts, where the error carries none: APIConnectionError    *)
(*            and plain Errors)                                            *)
(*   reset  : the message includes 'ECONNRESET'                            *)
(***************************************************************************)
RateLimit == [api |-> TRUE, status |-> 429, reset |-> FALSE]
ServerError == [api |-> TRUE, status |-> 500, reset |-> FALSE]
AuthError == [api |-> TRUE, status |-> 401, reset |-> FALSE]
BadRequest == [api |-> TRUE, status |-> 400, reset |-> FALSE]
ConnReset == [api |-> FALSE, status |-> 0, reset |-> TRUE]
\* APIConnectionError: an APIError without status, message "Connection error."
ApiConnError == [api |-> TRUE, status |-> 0, reset |-> FALSE]
ProviderErrors ==
    {RateLimit, ServerError, AuthError, BadRequest, ConnReset, ApiConnError}
NoError == [api |-> FALSE, status |-> 0, reset |-> FALSE]
\* The provider answered with a vector.
Answered == [api |-> TRUE, status |-> 200, reset |-> FALSE]

isRetryableErrorAlways(error) == TRUE

isRetryableErrorClientToo(error) ==
    IF error.api THEN error.status >= 400 /\ error.status < 600 ELSE error.reset

isRetryableError(error) ==
    IF error.api
    THEN error.status = 429 \/ (error.status >= 500 /\ error.status < 600)
    ELSE error.reset

RECURSIVE Pow(_, _)
Pow(b, n) == IF n = 0 THEN 1 ELSE b * Pow(b, n - 1)

Min(x, y) == IF x < y THEN x ELSE y
Max(x, y) == IF x > y THEN x ELSE y

\* pRetry's wait before retry number `attempt` (randomize off):
\* min(minTimeout * factor^(attempt-1), maxTimeout).
Backoff(attempt) == Min(MinTimeout * Pow(Factor, attempt - 1), MaxTimeout)

(***************************************************************************)
(* State.                                                                  *)
(***************************************************************************)
VARIABLES
    embeddings,       \* the 'embeddings' collection, in creation order
    records,          \* owner records of the other collections; id = index
    isAuthenticated,  \* pocketbase/client.ts: isAuthenticated
    pc,               \* where the running call stands ("idle" if none)
    tool,             \* the call that is running or ran last
    sv,               \* arguments and progress of the running saveEmbedding
    emb,              \* the running createEmbedding (pRetry loop)
    resp,             \* response of the last tool call
    hist,             \* completed saveEmbedding calls, oldest first
    calls,            \* invocations started so far
    search,           \* input and working state of the running search
    currentSessionId  \* tools/session.ts: currentSessionId (0 is null)

vars == <<embeddings, records, isAuthenticated, pc, tool, sv, emb,
          resp, hist, calls, search, currentSessionId>>

(***************************************************************************)
(* Helpers on sequences.                                                   *)
(***************************************************************************)
\* Index of the first element of s satisfying P, 0 if there is none.
FirstIndex(s, P(_)) ==
    IF \E i \in 1..Len(s) : P(s[i])
    THEN CHOOSE i \in 1..Len(s) : P(s[i]) /\ \A j \in 1..(i - 1) : ~P(s[j])
    ELSE 0

\* A delete that blanks the vector of the record instead of removing it.
BlankAt(s, i) == [s EXCEPT ![i].vector = <<>>]

RemoveAt(s, i) == SubSeq(s, 1, i - 1) \o SubSeq(s, i + 1, Len(s))

Count(s, P(_)) == Cardinality({i \in 1..Len(s) : P(s[i])})

(***************************************************************************)
(* saveEmbedding (utils/embeddings.ts).                                    *)
(***************************************************************************)
\* The lookup filter of the skip policy: source_id and content_hash.
SkipFilterSameType(e, sourceType, sourceId, contentHash) ==
    /\ e.source_id = sourceId /\ e.content_hash = contentHash
    /\ e.source_type = sourceType

\* The skip lookup matching on source_id alone.
SkipFilterAnyHash(e, sourceType, sourceId, contentHash) ==
    e.source_id = sourceId

SkipFilter(e, sourceType, sourceId, contentHash) ==
    e.source_id = sourceId /\ e.content_hash = contentHash

\* The replace lookup matching on source_id alone.
ReplaceFilterAnyType(e, sourceType, sourceId, contentHash) ==
    e.source_id = sourceId

\* The lookup filter of the replace policy: source_id and source_type.
ReplaceFilter(e, sourceType, sourceId, contentHash) ==
    e.source_id = sourceId /\ e.source_type = sourceType

\* The outer catch of saveEmbedding logs and does not rethrow.
SaveCatchRethrows == FALSE

SaveCatchSwallows == TRUE

EmbIdle ==
    [status |-> "idle", text |-> "", attempts |-> 0, waits |-> <<>>,
     outcome |-> NoError, error |-> NoError, vector |-> <<>>]

\* createEmbedding(text) is entered: pRetry has made no attempt yet.
StartEmbedding(text) == [EmbIdle EXCEPT !.status = "running", !.text = text]

SvIdle ==
    [sourceType |-> "", sourceId |-> 0, content |-> "", onExisting |-> "",
     lookup |-> "none", deleteFailed |-> FALSE, embedCalls |-> 0,
     before |-> <<>>]

NewSave(sourceType, sourceId, content, onExisting) ==
    [sourceType |-> sourceType, sourceId |-> sourceId, content |-> content,
     onExisting |-> onExisting, lookup |-> "none", deleteFailed |-> FALSE,
     embedCalls |-> 0, before |-> embeddings]

\* A tool's response.  error, total, results: of the ranking tools.
NoResp ==
    [tool |-> "none", status |-> "none", id |-> 0, written |-> FALSE,
     error |-> "", total |-> 0, results |-> <<>>]

(***************************************************************************)
(* createEmbedding: one attempt of the pRetry loop.  `outcome` is Answered *)
(* or the error client.embeddings.create threw.                            *)
(***************************************************************************)
\* pRetry stops on an AbortError (thrown for a non-retryable error) and when
\* no retry is left; `attempts` counts the attempts made, this one included.
RetriesLeft(attempts) == Retries - (attempts - 1)

AfterAttempt(e, outcome) ==
    LET n == e.attempts + 1
        made == [e EXCEPT !.attempts = n]
    IN  IF outcome = Answered
        THEN [made EXCEPT !.status = "ok", !.vector = ProviderVector(e.text)]
        ELSE IF ~isRetryableError(outcome) \/ RetriesLeft(n) <= 0
        THEN [made EXCEPT !.status = "failed", !.error = outcome]
        ELSE [made EXCEPT !.error = outcome,
                          !.waits = Append(e.waits, Backoff(n))]

EmbedPcs == {"save_embed", "search_embed", "find_embed"}

EmbedAttempt ==
    /\ pc \in EmbedPcs
    /\ emb.status = "running"
    /\ \E outcome \in {Answered} \cup ProviderErrors :
          \* emb.outcome records what the provider did, for the properties
          emb' = [AfterAttempt(emb, outcome) EXCEPT !.outcome = outcome]
    /\ UNCHANGED <<embeddings, records, isAuthenticated, pc, tool, sv,
                   resp, hist, calls, search>>
    /\ UNCHANGED currentSessionId

(***************************************************************************)
(* saveEmbedding returns (or, were its catch to rethrow, raises) to the    *)
(* call that invoked it:                                                   *)
(*   saveEmbedding   a direct call of the exported function;               *)
(*   capture_observation   through saveEmbeddingAsync, whose own .catch    *)
(*                   swallows, after the response was already returned;    *)
(*   save_workflow   awaited by the handler, which then returns success    *)
(*                   (a raise would reach wrapHandler: isError).           *)
(***************************************************************************)
\* What a completed saveEmbedding did.  outcome: "skipped" (line 145), "saved"
\* (line 174) or "failed" (the catch of line 175, after a failure at failedAt);
\* lookup: what getFirstListItem answered ("found", "not_found", "error").
Summary(outcome, failedAt, raised, lookup, after) ==
    [sourceType |-> sv.sourceType, sourceId |-> sv.sourceId,
     content |-> sv.content, onExisting |-> sv.onExisting,
     outcome |-> outcome, failedAt |-> failedAt, raised |-> raised,
     lookup |-> lookup, embedCalls |-> sv.embedCalls,
     before |-> sv.before, after |-> after]

FinishSave(outcome, failedAt, raised, lookup, after) ==
    /\ embeddings' = after
    /\ hist' = Append(hist, Summary(outcome, failedAt, raised, lookup, after))
    /\ pc' = "idle"
    /\ sv' = SvIdle
    /\ emb' = EmbIdle
    /\ resp' = CASE tool = "saveEmbedding" ->
                      [resp EXCEPT !.status = IF raised THEN "threw" ELSE "returned"]
                 [] tool = "save_workflow" ->
                      [resp EXCEPT !.status = IF raised THEN "error" ELSE "ok"]
                 [] OTHER -> resp

\* A failure inside saveEmbedding's try block reaches its catch.
SaveFails(failedAt, after) ==
    FinishSave("failed", failedAt, ~SaveCatchSwallows, sv.lookup, after)

(***************************************************************************)
(* saveEmbedding, lines 135-160: authenticate, look the embedding up and,  *)
(* under replace, delete it.  Each database call may fail.                 *)
(***************************************************************************)
SaveLookup ==
    /\ pc = "save_lookup"
    /\ \E authOk \in BOOLEAN, lookupOk \in BOOLEAN, deleteOk \in BOOLEAN :
        LET contentHash == hashContent(sv.content)
            Matches(e) ==
                IF sv.onExisting = "skip"
                THEN SkipFilter(e, sv.sourceType, sv.sourceId, contentHash)
                ELSE ReplaceFilter(e, sv.sourceType, sv.sourceId, contentHash)
            existing == IF lookupOk THEN FirstIndex(embeddings, Matches) ELSE 0
            lookup == IF ~lookupOk THEN "error"
                      ELSE IF existing # 0 THEN "found" ELSE "not_found"
        IN  IF ~(isAuthenticated \/ authOk)
            THEN \* getPocketBase() threw
                 /\ SaveFails("auth", embeddings)
                 /\ UNCHANGED <<records, isAuthenticated, tool, calls, search>>
            ELSE IF sv.onExisting = "skip" /\ existing # 0
            THEN \* line 145: the embedding exists with the same content
                 /\ isAuthenticated' = TRUE
                 /\ FinishSave("skipped", "none", FALSE, lookup, embeddings)
                 /\ UNCHANGED <<records, tool, calls, search>>
            ELSE \* lines 149-163: delete under replace, then createEmbedding
                 /\ isAuthenticated' = TRUE
                 /\ embeddings' =
                       IF sv.onExisting = "replace" /\ existing # 0 /\ deleteOk
                       THEN RemoveAt(embeddings, existing)
                       ELSE embeddings
                 /\ sv' = [sv EXCEPT !.lookup = lookup, !.embedCalls = 1,
                                     !.deleteFailed =
                                         /\ sv.onExisting = "replace"
                                         /\ existing # 0
                                         /\ ~deleteOk]
                 /\ emb' = StartEmbedding(sv.content)
                 /\ pc' = "save_embed"
                 /\ UNCHANGED <<records, tool, resp, hist, calls, search>>
    /\ UNCHANGED currentSessionId

(***************************************************************************)
(* saveEmbedding, lines 163-178: createEmbedding has returned or thrown;   *)
(* on a vector, create the embedding record.                               *)
(***************************************************************************)
NewEmbedding(sourceType, sourceId, contentHash, vector) ==
    [source_type |-> sourceType, source_id |-> sourceId,
     content_hash |-> contentHash, vector |-> vector, model |-> Model]

SaveCreate ==
    /\ pc = "save_embed"
    /\ emb.status \in {"ok", "failed"}
    /\ \E createOk \in BOOLEAN :
        IF emb.status = "ok" /\ createOk
        THEN FinishSave("saved", "none", FALSE, sv.lookup,
                 Append(embeddings,
                        NewEmbedding(sv.sourceType, sv.sourceId,
                                     hashContent(sv.content), emb.vector)))
        ELSE SaveFails(IF emb.status = "ok" THEN "create" ELSE "provider",
                       embeddings)
    /\ UNCHANGED <<records, isAuthenticated, tool, calls, search>>
    /\ UNCHANGED currentSessionId

(***************************************************************************)
(* The calls that start a saveEmbedding.                                   *)
(***************************************************************************)
CanStart == pc = "idle" /\ calls < MaxCalls

\* Sources a direct caller names: (sourceType, sourceId).
DirectSources == {<<"observation", 1>>, <<"workflow", 1>>}

\* saveEmbedding(sourceType, sourceId, content, {onExisting}) called directly.
SaveEmbeddingCall ==
    /\ CanStart
    /\ \E src \in DirectSources, content \in Texts,
          onExisting \in {"skip", "replace"} :
          sv' = NewSave(src[1], src[2], content, onExisting)
    /\ tool' = "saveEmbedding"
    /\ resp' = [NoResp EXCEPT !.tool = "saveEmbedding", !.status = "pending"]
    /\ pc' = "save_lookup"
    /\ calls' = calls + 1
    /\ UNCHANGED <<embeddings, records, isAuthenticated, emb, hist, search>>
    /\ UNCHANGED currentSessionId

\* A record of an owner collection.  exists: FALSE once deleted; age: days
\* since `created`; optional numeric fields are <<>> (undefined) or <<value>>.
OwnerRecord(coll, name, text, age) ==
    [coll |-> coll, name |-> name, text |-> text, exists |-> TRUE,
     age |-> age, importance |-> <<>>, strength |-> <<>>, outcome |-> "",
     execution_count |-> <<>>, project |-> ""]

\* capture_observation: create the observation, fire saveEmbeddingAsync
\* (skip policy), return success.  The save runs after the response.
CaptureObservation ==
    /\ CanStart
    /\ \E content \in Texts, authOk \in BOOLEAN, createOk \in BOOLEAN :
        IF (isAuthenticated \/ authOk) /\ createOk
        THEN LET record == [OwnerRecord("observations", "", content, 0)
                              EXCEPT !.importance = <<3>>]
                 id == Len(records) + 1
             IN  /\ records' = Append(records, record)
                 /\ isAuthenticated' = TRUE
                 /\ resp' = [NoResp EXCEPT !.tool = "capture_observation",
                                 !.status = "ok", !.id = id, !.written = TRUE]
                 /\ sv' = NewSave("observation", id, content, "skip")
                 /\ pc' = "save_lookup"
        ELSE /\ isAuthenticated' = (isAuthenticated \/ authOk)
             /\ resp' = [NoResp EXCEPT !.tool = "capture_observation",
                                         !.status = "error"]
             /\ UNCHANGED <<records, sv, pc>>
    /\ tool' = "capture_observation"
    /\ calls' = calls + 1
    /\ UNCHANGED <<embeddings, emb, hist, search>>
    /\ UNCHANGED currentSessionId

WorkflowName == "deploy"

\* save_workflow: update the workflow of that name or create it, then await
\* saveEmbedding under the replace policy, then return success.
SaveWorkflowTool ==
    /\ CanStart
    /\ \E content \in Texts, authOk \in BOOLEAN, lookupOk \in BOOLEAN,
          writeOk \in BOOLEAN :
        LET IsNamed(r) == r.exists /\ r.coll = "workflows" /\ r.name = WorkflowName
            existingWorkflow ==
                IF lookupOk THEN FirstIndex(records, IsNamed) ELSE 0
            id == IF existingWorkflow # 0 THEN existingWorkflow
                  ELSE Len(records) + 1
        IN  IF (isAuthenticated \/ authOk) /\ writeOk
            THEN /\ records' =
                      IF existingWorkflow # 0
                      THEN [records EXCEPT ![id].text = content]
                      ELSE Append(records,
                               [OwnerRecord("workflows", WorkflowName, content, 0)
                                  EXCEPT !.execution_count = <<0>>])
                 /\ isAuthenticated' = TRUE
                 /\ resp' = [NoResp EXCEPT !.tool = "save_workflow",
                                 !.status = "pending", !.id = id, !.written = TRUE]
                 /\ sv' = NewSave("workflow", id, content, "replace")
                 /\ pc' = "save_lookup"
            ELSE /\ isAuthenticated' = (isAuthenticated \/ authOk)
                 /\ resp' = [NoResp EXCEPT !.tool = "save_workflow",
                                             !.status = "error"]
                 /\ UNCHANGED <<records, sv, pc>>
    /\ tool' = "save_workflow"
    /\ calls' = calls + 1
    /\ UNCHANGED <<embeddings, emb, hist, search>>
    /\ UNCHANGED currentSessionId

(***************************************************************************)
(* Numbers of the ranker.  A similarity or score x is the integer          *)
(* x * SCALE; a weight or threshold is in hundredths.  The stored vectors  *)
(* of the model have integer norms, so that every quotient below is exact. *)
(***************************************************************************)
SCALE == 100 * 100

\* JavaScript's NaN: a value apart from every number of the model.
NaN == 0 - SCALE * SCALE

\* A vector entry that is not a number (a string, null): arithmetic on it
\* gives NaN.
NonNumeric == NaN

IsNaN(x) == x = NaN

Add(x, y) == IF IsNaN(x) \/ IsNaN(y) THEN NaN ELSE x + y

Mul(x, y) == IF IsNaN(x) \/ IsNaN(y) THEN NaN ELSE x * y

\* x / y; 0 / 0 is NaN (a dot product is 0 whenever a norm is 0).
Div(x, y) == IF IsNaN(x) \/ IsNaN(y) \/ y = 0 THEN NaN ELSE x \div y

\* x < y and x >= y of JavaScript: false on NaN.
Lt(x, y) == ~IsNaN(x) /\ ~IsNaN(y) /\ x < y

Ge(x, y) == ~IsNaN(x) /\ ~IsNaN(y) /\ x >= y

\* Math.sqrt on the integers (exact on the squares).
Sqrt(n) ==
    IF IsNaN(n) \/ n < 0 THEN NaN
    ELSE CHOOSE r \in 0..n : r * r <= n /\ (r + 1) * (r + 1) > n

\* Math.round(x / unit): to the nearest integer, halves upwards.
Round(x, unit) == IF IsNaN(x) THEN NaN ELSE (2 * x + unit) \div (2 * unit)

\* value || fallback and value ?? fallback on an optional number, <<>>
\* (undefined) or <<v>>: || takes the fallback for 0 as well.
OrElse(opt, fallback) ==
    IF opt = <<>> THEN fallback ELSE IF opt[1] = 0 THEN fallback ELSE opt[1]

Nullish(opt, fallback) == IF opt = <<>> THEN fallback ELSE opt[1]

\* Math.exp(-x) for x = X / SCALE: the Taylor series on [0, 1],
\* exp(-x) = exp(-x/2)^2 above, and exp(-x) = 1 / exp(x) for x < 0.
RECURSIVE ExpTerm(_, _)
ExpTerm(X, k) == IF k = 0 THEN SCALE ELSE (ExpTerm(X, k - 1) * X) \div (k * SCALE)

RECURSIVE ExpSum(_, _)
ExpSum(X, k) ==
    IF k > 12 THEN 0
    ELSE (IF k % 2 = 0 THEN ExpTerm(X, k) ELSE 0 - ExpTerm(X, k)) + ExpSum(X, k + 1)

RECURSIVE ExpNeg(_)
ExpNeg(X) ==
    IF X < 0 THEN (SCALE * SCALE) \div ExpNeg(0 - X)
    ELSE IF X <= SCALE THEN ExpSum(X, 0)
    ELSE LET h == ExpNeg(X \div 2) IN (h * h) \div SCALE

(***************************************************************************)
(* cosineSimilarity (utils/embeddings.ts).                                 *)
(***************************************************************************)
RECURSIVE Dot(_, _, _)
Dot(a, b, i) ==
    IF i > Len(a) THEN 0 ELSE Add(Mul(a[i], b[i]), Dot(a, b, i + 1))

\* Returns [threw, value]: threw when the lengths differ.
\* cosineSimilarity comparing over the shorter length instead of throwing.
cosineSimilarityTruncating(a, b) ==
    LET n == Min(Len(a), Len(b))
        x == SubSeq(a, 1, n)
        y == SubSeq(b, 1, n)
    IN  [threw |-> FALSE,
         value |-> Div(Mul(Dot(x, y, 1), SCALE),
                       Mul(Sqrt(Dot(x, x, 1)), Sqrt(Dot(y, y, 1))))]

cosineSimilarity(a, b) ==
    IF Len(a) # Len(b)
    THEN [threw |-> TRUE, value |-> NaN]
    ELSE LET dotProduct == Dot(a, b, 1)
             normA == Dot(a, a, 1)
             normB == Dot(b, b, 1)
         IN  [threw |-> FALSE,
              value |-> Div(Mul(dotProduct, SCALE),
                            Mul(Sqrt(normA), Sqrt(normB)))]

(***************************************************************************)
(* The ranker of semantic_search (tools/search.ts).                        *)
(***************************************************************************)
\* COLLECTION_MAP[sourceType]; "" where the map has no such key.
COLLECTION_MAP(sourceType) ==
    CASE sourceType = "observation" -> "observations"
      [] sourceType = "decision" -> "decisions"
      [] sourceType = "bug" -> "bugs_and_fixes"
      [] sourceType = "pattern" -> "patterns"
      [] sourceType = "snippet" -> "code_snippets"
      [] sourceType = "workflow" -> "workflows"
      [] OTHER -> ""

DefaultSourceTypes ==
    {"observation", "decision", "bug", "pattern", "snippet", "workflow"}

\* pb.collection(collectionName).getOne(id) finds a record.
HasRecordDeletedToo(collectionName, id) ==
    id \in DOMAIN records /\ records[id].coll = collectionName

HasRecord(collectionName, id) ==
    /\ id \in DOMAIN records
    /\ records[id].exists
    /\ records[id].coll = collectionName

\* Math.max(0, 1 - recencyWeight - importanceWeight), in hundredths.
similarityWeightUnclamped(recencyWeight, importanceWeight) ==
    100 - recencyWeight - importanceWeight

similarityWeightZero(recencyWeight, importanceWeight) == 0

similarityWeightOf(recencyWeight, importanceWeight) ==
    Max(0, 100 - recencyWeight - importanceWeight)

\* Math.exp(-daysOld / decayDays).
recencyScoreOf(record, decayDays) == ExpNeg((record.age * SCALE) \div decayDays)

\* importanceScore without the branches on the source type.
importanceScoreNeutral(record, sourceType) ==
    IF record.importance # <<>> THEN ((record.importance[1] - 1) * SCALE) \div 4
    ELSE (5 * SCALE) \div 10

importanceScoreOf(record, sourceType) ==
    IF record.importance # <<>> THEN ((record.importance[1] - 1) * SCALE) \div 4
    ELSE IF record.strength # <<>> THEN ((record.strength[1] - 1) * SCALE) \div 4
    ELSE IF sourceType = "decision"
    THEN (IF record.outcome # "" THEN (8 * SCALE) \div 10 ELSE (5 * SCALE) \div 10)
    ELSE IF sourceType = "workflow"
    THEN Min(SCALE, (3 * SCALE) \div 10
                      + OrElse(record.execution_count, 0) * (SCALE \div 10))
    ELSE (5 * SCALE) \div 10

\* One pass of the loop of lines 353-380 over allEmbeddings[i]: <<>> when the
\* embedding is skipped, else the entry pushed on `scores`.  s holds the
\* locals of the handler; `embedding` (the index in allEmbeddings) is kept
\* for the properties.
ScoreEntry(all, i, queryEmbedding, s) ==
    LET embedding == all[i]
        cos == cosineSimilarity(queryEmbedding, embedding.vector)
        similarity == cos.value
        collectionName == COLLECTION_MAP(embedding.source_type)
        record == records[embedding.source_id]
        recencyScore == recencyScoreOf(record, s.decayDays)
        importanceScore == importanceScoreOf(record, embedding.source_type)
        finalScore ==
            Add(Add(Mul(similarity, s.similarityWeight),
                    Mul(recencyScore, s.recencyWeight)),
                Mul(importanceScore, s.importanceWeight))
    IN  IF embedding.source_type \notin s.sourceTypes THEN <<>>
        ELSE IF Len(embedding.vector) = 0 THEN <<>>
        ELSE IF cos.threw THEN <<>>
        ELSE IF Lt(similarity, s.threshold * (SCALE \div 100)) THEN <<>>
        ELSE IF collectionName = "" THEN <<>>
        ELSE IF ~HasRecord(collectionName, embedding.source_id) THEN <<>>
        ELSE <<[sourceType |-> embedding.source_type,
                sourceId |-> embedding.source_id,
                similarity |-> similarity,
                recencyScore |-> Round(recencyScore, SCALE \div 100),
                importanceScore |-> Round(importanceScore, SCALE \div 100),
                finalScore |-> Round(finalScore, SCALE),
                embedding |-> i]>>

RECURSIVE ScoresFrom(_, _, _, _)
ScoresFrom(all, i, queryEmbedding, s) ==
    IF i > Len(all) THEN <<>>
    ELSE ScoreEntry(all, i, queryEmbedding, s)
           \o ScoresFrom(all, i + 1, queryEmbedding, s)

\* scores.sort((a, b) => b[key] - a[key]): a stable sort, descending.  The
\* comparator answers NaN on a NaN score, which sort takes for 0; the
\* comparator is then inconsistent and the order is implementation-defined.
RECURSIVE InsertDesc(_, _, _)
InsertDesc(sorted, x, key) ==
    IF sorted = <<>> THEN <<x>>
    ELSE IF Head(sorted)[key] >= x[key]
    THEN <<Head(sorted)>> \o InsertDesc(Tail(sorted), x, key)
    ELSE <<x>> \o sorted

RECURSIVE StableSortDesc(_, _)
StableSortDesc(s, key) ==
    IF s = <<>> THEN <<>>
    ELSE InsertDesc(StableSortDesc(SubSeq(s, 1, Len(s) - 1), key), s[Len(s)], key)

Reorderings(s) ==
    {[i \in 1..Len(s) |-> s[p[i]]] : p \in Permutations(1..Len(s))}

SortOutcomes(s, key) ==
    IF \E i \in 1..Len(s) : IsNaN(s[i][key])
    THEN Reorderings(s)
    ELSE {StableSortDesc(s, key)}

\* The loop of lines 385-398 over scores.slice(0, limit): the records are
\* fetched again; the entry whose fetch fails (index `lost`, 0 if none) is
\* left out.
RECURSIVE ResultsFrom(_, _, _, _)
ResultsFrom(scores, i, limit, lost) ==
    IF i > Len(scores) \/ i > limit THEN <<>>
    ELSE LET score == scores[i]
             collectionName == COLLECTION_MAP(score.sourceType)
             rest == ResultsFrom(scores, i + 1, limit, lost)
         IN  IF collectionName = "" THEN rest
             ELSE IF i = lost \/ ~HasRecord(collectionName, score.sourceId)
             THEN rest
             ELSE <<[type |-> score.sourceType, id |-> score.sourceId,
                     similarity |-> Round(score.similarity, SCALE \div 100),
                     recency_score |-> score.recencyScore,
                     importance_score |-> score.importanceScore,
                     final_score |-> score.finalScore,
                     embedding |-> score.embedding]>> \o rest

(***************************************************************************)
(* The ranker of find_workflow (tools/workflow.ts).  The list is loaded    *)
(* with the filter source_type="workflow"; `embedding` is the index in the *)
(* whole collection, kept for the properties.                              *)
(***************************************************************************)
IsWorkflowEmbedding(e) == e.source_type = "workflow"

\* cosineSimilarity throws inside the loop of lines 152-156, which has no try.
FindThrows(all, queryEmbedding) ==
    \E i \in 1..Len(all) :
        /\ IsWorkflowEmbedding(all[i])
        /\ cosineSimilarity(queryEmbedding, all[i].vector).threw

RECURSIVE FindScoresFrom(_, _, _)
FindScoresFrom(all, i, queryEmbedding) ==
    IF i > Len(all) THEN <<>>
    ELSE LET similarity == cosineSimilarity(queryEmbedding, all[i].vector).value
             rest == FindScoresFrom(all, i + 1, queryEmbedding)
         IN  IF ~IsWorkflowEmbedding(all[i]) THEN rest
             ELSE IF Ge(similarity, (5 * SCALE) \div 10)
             THEN <<[id |-> all[i].source_id, similarity |-> similarity,
                     embedding |-> i]>> \o rest
             ELSE rest

\* The loop of lines 160-170 over scores.slice(0, limit).
RECURSIVE FindResultsFrom(_, _, _, _, _)
FindResultsFrom(scores, i, limit, project, lost) ==
    IF i > Len(scores) \/ i > limit THEN <<>>
    ELSE LET score == scores[i]
             rest == FindResultsFrom(scores, i + 1, limit, project, lost)
         IN  IF i = lost \/ ~HasRecord("workflows", score.id) THEN rest
             ELSE IF project # "" /\ records[score.id].project # project THEN rest
             ELSE <<[id |-> score.id, name |-> records[score.id].name,
                     execution_count |->
                         OrElse(records[score.id].execution_count, 0),
                     similarity |-> Round(score.similarity, SCALE \div 100),
                     embedding |-> score.embedding]>> \o rest

(***************************************************************************)
(* The ranking tools.  search holds the input and the locals of the        *)
(* handler that runs or ran last.                                          *)
(***************************************************************************)
SearchIdle ==
    [kind |-> "none", input |-> <<>>, threshold |-> 0, limit |-> 0,
     sourceTypes |-> {}, recencyWeight |-> 0, importanceWeight |-> 0,
     decayDays |-> 0, similarityWeight |-> 0, scores |-> <<>>,
     stage |-> "none", listed |-> FALSE, lost |-> 0]

\* Inputs the schemas accept; <<>> is an absent optional field.
ThresholdInputs == {<<>>, <<0>>, <<90>>}
LimitInputs == {<<>>, <<2>>, <<0>>}
WeightInputs == {<<<<>>, <<>>>>, <<<<0>>, <<0>>>>, <<<<100>>, <<100>>>>}
CollectionInputs == {<<>>, <<{"observation", "decision"}>>}
ProjectInputs == {"", "q"}

\* Lines 339-345: the locals of semanticSearch.
SemanticLocals(input) ==
    LET recencyWeight == Nullish(input.recency_weight, 30)
        importanceWeight == Nullish(input.importance_weight, 20)
    IN  [kind |-> "semantic_search", input |-> input,
         threshold |-> OrElse(input.threshold, 70),
         limit |-> OrElse(input.limit, 5),
         sourceTypes |-> IF input.collections = <<>> THEN DefaultSourceTypes
                         ELSE input.collections[1],
         recencyWeight |-> recencyWeight,
         importanceWeight |-> importanceWeight,
         decayDays |-> Nullish(input.decay_days, 30),
         similarityWeight |-> similarityWeightOf(recencyWeight, importanceWeight),
         scores |-> <<>>, stage |-> "started", listed |-> FALSE, lost |-> 0]

\* A search leaves the store as it is, so one search after another adds
\* nothing to one search from every store.
Searches == IF search.kind = "none" THEN 0 ELSE 1

CanSearch == pc = "idle" /\ Searches < MaxSearches

\* The handler rejects: wrapHandler answers with isError.
Rejects(name, error) ==
    resp' = [NoResp EXCEPT !.tool = name, !.status = "error", !.error = error]

\* createEmbedding(input.query) threw: nothing catches it in the handler.
QueryEmbeddingFailedEmpty(name) ==
    resp' = [NoResp EXCEPT !.tool = name, !.status = "ok"]

QueryEmbeddingFailed(name) == Rejects(name, "provider")

\* z.number().min(lo).max(hi).optional(), in the unit of the field.
OptionalInRange(field, lo, hi) ==
    field = <<>> \/ (field[1] >= lo /\ field[1] <= hi)

\* SemanticSearchSchema.parse(args) returns.
SemanticSearchSchema(args) ==
    /\ args.query # ""
    /\ args.collections = <<>> \/ args.collections[1] \subseteq DefaultSourceTypes
    /\ OptionalInRange(args.threshold, 0, 100)
    /\ OptionalInRange(args.limit, 1, 20)
    /\ OptionalInRange(args.recency_weight, 0, 100)
    /\ OptionalInRange(args.importance_weight, 0, 100)
    /\ OptionalInRange(args.decay_days, 1, 365)

\* FindWorkflowSchema.parse(args) returns.
FindWorkflowSchema(args) ==
    /\ args.query # ""
    /\ OptionalInRange(args.limit, 1, 20)

\* The catch of wrapHandler on a ZodError: the handler has not been called.
ValidationError(toolName, kind, args) ==
    /\ Rejects(toolName, "Validation error")
    /\ search' = [SearchIdle EXCEPT !.kind = kind, !.input = args,
                                    !.stage = "invalid"]
    /\ UNCHANGED <<isAuthenticated, emb, pc>>

\* wrapHandler with the handler called whatever schema.parse says.
wrapHandlerUnvalidated(toolName, args, parsed, handler) == handler

\* wrapHandler: schema.parse(args) first, inside the try; `parsed` is whether
\* it returned, `handler` the first step of the handler.  What the handler
\* throws later reaches the same catch (Rejects).
wrapHandler(toolName, args, parsed, handler) ==
    IF parsed THEN handler ELSE ValidationError(toolName, toolName, args)

\* The handler of semantic_search up to its first await of the provider.
SemanticSearchHandler(input, authOk) ==
    /\ search' = SemanticLocals(input)
    /\ IF isAuthenticated \/ authOk
       THEN /\ isAuthenticated' = TRUE
            /\ emb' = StartEmbedding(input.query)
            /\ pc' = "search_embed"
            /\ resp' = [NoResp EXCEPT !.tool = "semantic_search",
                                      !.status = "pending"]
       ELSE /\ Rejects("semantic_search", "auth")
            /\ UNCHANGED <<isAuthenticated, emb, pc>>

\* semantic_search with its optional inputs drawn from the given sets.
SemanticSearchOver(thresholds, limits, weights, collectionSets) ==
    /\ CanSearch
    /\ \E query \in Texts, threshold \in thresholds, limit \in limits,
          w \in weights, collections \in collectionSets,
          authOk \in BOOLEAN :
        LET input == [query |-> query, collections |-> collections,
                      threshold |-> threshold, limit |-> limit,
                      recency_weight |-> w[1], importance_weight |-> w[2],
                      decay_days |-> <<>>]
        IN  wrapHandler("semantic_search", input, SemanticSearchSchema(input),
                        SemanticSearchHandler(input, authOk))
    /\ tool' = "semantic_search"
    /\ calls' = calls + 1
    /\ UNCHANGED <<embeddings, records, sv, hist>>
    /\ UNCHANGED currentSessionId

SemanticSearch ==
    SemanticSearchOver(ThresholdInputs, LimitInputs, WeightInputs,
                       CollectionInputs)

\* semantic_search with only its query given.
SemanticSearchDefaults ==
    SemanticSearchOver({<<>>}, {<<>>}, {<<<<>>, <<>>>>}, {<<>>})

\* Lines 347-400: createEmbedding has returned or thrown; load the list,
\* score, sort, build the results.
SearchRank ==
    /\ pc = "search_embed"
    /\ emb.status \in {"ok", "failed"}
    /\ \E listOk \in BOOLEAN :
        IF emb.status = "failed"
        THEN /\ QueryEmbeddingFailed("semantic_search")
             /\ search' = [search EXCEPT !.stage = "rejected"]
        ELSE IF ~listOk
        THEN \* getFullList threw
             /\ Rejects("semantic_search", "database")
             /\ search' = [search EXCEPT !.stage = "rejected", !.listed = TRUE]
        ELSE LET allEmbeddings == embeddings
                 scores == ScoresFrom(allEmbeddings, 1, emb.vector, search)
             IN  \E sorted \in SortOutcomes(scores, "finalScore"),
                    lost \in 0..Min(search.limit, Len(scores)) :
                    LET results == ResultsFrom(sorted, 1, search.limit, lost)
                    IN  /\ search' = [search EXCEPT !.scores = sorted,
                                                    !.stage = "ranked",
                                                    !.listed = TRUE,
                                                    !.lost = lost]
                        /\ resp' = [NoResp EXCEPT !.tool = "semantic_search",
                                                  !.status = "ok",
                                                  !.total = Len(results),
                                                  !.results = results]
    /\ pc' = "idle"
    /\ emb' = EmbIdle
    /\ UNCHANGED <<embeddings, records, isAuthenticated, tool, sv, hist, calls>>
    /\ UNCHANGED currentSessionId

\* The handler of find_workflow up to its first await of the provider.
FindWorkflowHandler(input, authOk) ==
    /\ search' = [SearchIdle EXCEPT !.kind = "find_workflow",
                      !.input = input, !.limit = OrElse(input.limit, 5),
                      !.threshold = 50, !.stage = "started"]
    /\ IF isAuthenticated \/ authOk
       THEN /\ isAuthenticated' = TRUE
            /\ emb' = StartEmbedding(input.query)
            /\ pc' = "find_embed"
            /\ resp' = [NoResp EXCEPT !.tool = "find_workflow",
                                      !.status = "pending"]
       ELSE /\ Rejects("find_workflow", "auth")
            /\ UNCHANGED <<isAuthenticated, emb, pc>>

FindWorkflow ==
    /\ CanSearch
    /\ \E query \in Texts, limit \in LimitInputs, project \in ProjectInputs,
          authOk \in BOOLEAN :
        LET input == [query |-> query, project |-> project, limit |-> limit]
        IN  wrapHandler("find_workflow", input, FindWorkflowSchema(input),
                        FindWorkflowHandler(input, authOk))
    /\ tool' = "find_workflow"
    /\ calls' = calls + 1
    /\ UNCHANGED <<embeddings, records, sv, hist>>
    /\ UNCHANGED currentSessionId

\* Lines 148-172 of find_workflow.
FindRank ==
    /\ pc = "find_embed"
    /\ emb.status \in {"ok", "failed"}
    /\ \E listOk \in BOOLEAN :
        IF emb.status = "failed"
        THEN /\ QueryEmbeddingFailed("find_workflow")
             /\ search' = [search EXCEPT !.stage = "rejected"]
        ELSE IF ~listOk
        THEN /\ Rejects("find_workflow", "database")
             /\ search' = [search EXCEPT !.stage = "rejected", !.listed = TRUE]
        ELSE IF FindThrows(embeddings, emb.vector)
        THEN /\ Rejects("find_workflow", "Vectors must have the same length")
             /\ search' = [search EXCEPT !.stage = "aborted", !.listed = TRUE]
        ELSE LET scores == FindScoresFrom(embeddings, 1, emb.vector)
             IN  \E sorted \in SortOutcomes(scores, "similarity"),
                    lost \in 0..Min(search.limit, Len(scores)) :
                    LET results == FindResultsFrom(sorted, 1, search.limit,
                                                   search.input.project, lost)
                    IN  /\ search' = [search EXCEPT !.scores = sorted,
                                                    !.stage = "ranked",
                                                    !.listed = TRUE,
                                                    !.lost = lost]
                        /\ resp' = [NoResp EXCEPT !.tool = "find_workflow",
                                                  !.status = "ok",
                                                  !.total = Len(results),
                                                  !.results = results]
    /\ pc' = "idle"
    /\ emb' = EmbIdle
    /\ UNCHANGED <<embeddings, records, isAuthenticated, tool, sv, hist, calls>>
    /\ UNCHANGED currentSessionId

(***************************************************************************)
(* The ranker over a store as earlier saves, deletions and writes of other *)
(* clients may have left it.                                               *)
(***************************************************************************)
RankRecords ==
    << [OwnerRecord("observations", "", "a", 0) EXCEPT !.importance = <<3>>],
       [OwnerRecord("observations", "", "b", 30) EXCEPT !.importance = <<5>>],
       OwnerRecord("decisions", "", "b", 0),
       [OwnerRecord("workflows", WorkflowName, "a", 0)
          EXCEPT !.execution_count = <<2>>],
       [OwnerRecord("observations", "", "a", 0) EXCEPT !.exists = FALSE] >>

StoredEmbeddings ==
    { NewEmbedding("observation", 1, hashContent("a"), <<3, 4>>),
      NewEmbedding("observation", 2, hashContent("b"), <<4, 3>>),
      NewEmbedding("decision", 3, hashContent("b"), <<5, 0>>),
      NewEmbedding("workflow", 4, hashContent("a"), <<0, 5>>),
      NewEmbedding("workflow", 4, hashContent("b"), <<>>),
      NewEmbedding("observation", 1, hashContent("b"), <<NonNumeric, 4>>),
      NewEmbedding("observation", 5, hashContent("a"), <<3, 4>>),
      NewEmbedding("workflow", 4, hashContent("a"), <<3, 4, 0>>) }

RankStores ==
    UNION { { s \in [1..n -> StoredEmbeddings] :
                \A i, j \in 1..n : s[i] = s[j] => i = j } : n \in 0..MaxEmb }

RankInit ==
    /\ embeddings \in RankStores
    /\ records = RankRecords
    /\ isAuthenticated = FALSE
    /\ pc = "idle"
    /\ tool = "none"
    /\ sv = SvIdle
    /\ emb = EmbIdle
    /\ resp = NoResp
    /\ hist = <<>>
    /\ calls = 0
    /\ search = SearchIdle
    /\ currentSessionId = 0

(***************************************************************************)
(* The ranker over owner records of every kind the scores distinguish: all *)
(* stored vectors are the same, the owners differ in age and in the fields *)
(* importanceScore reads.  No searchable collection has a strength field   *)
(* (only user_preferences has), so no owner carries one.  Owner 10 is an   *)
(* observation whose importance number field holds 0 (the field is not     *)
(* required, and a record written without it stores 0); owner 11 carries a *)
(* `created` later than the Date.now() of the searching host.              *)
(***************************************************************************)
ScoreRecords ==
    << [OwnerRecord("observations", "", "a", 1) EXCEPT !.importance = <<3>>],
       [OwnerRecord("observations", "", "a", 15) EXCEPT !.importance = <<3>>],
       [OwnerRecord("observations", "", "a", 16) EXCEPT !.importance = <<3>>],
       [OwnerRecord("observations", "", "a", 60) EXCEPT !.importance = <<3>>],
       OwnerRecord("decisions", "", "a", 1),
       [OwnerRecord("decisions", "", "a", 1) EXCEPT !.outcome = "kept"],
       [OwnerRecord("workflows", WorkflowName, "a", 1)
          EXCEPT !.execution_count = <<9>>],
       OwnerRecord("bugs_and_fixes", "", "a", 1),
       [OwnerRecord("workflows", WorkflowName, "a", 1)
          EXCEPT !.execution_count = <<2>>],
       [OwnerRecord("observations", "", "a", 1) EXCEPT !.importance = <<0>>],
       [OwnerRecord("observations", "", "a", 0 - 1) EXCEPT !.importance = <<3>>] >>

SourceTypeOf(collectionName) ==
    CHOOSE t \in DefaultSourceTypes : COLLECTION_MAP(t) = collectionName

\* The embedding saved for owner record id of ScoreRecords.
ScoredEmbedding(id) ==
    NewEmbedding(SourceTypeOf(ScoreRecords[id].coll), id, hashContent("a"),
                 ProviderVector("a"))

\* Scenario A: owners aged 1, 15 and 60 days, in every order of storage.
ScenarioA == <<ScoredEmbedding(1), ScoredEmbedding(2), ScoredEmbedding(4)>>

ScoreStores ==
    UNION { { [i \in 1..n |-> ScoredEmbedding(ids[i])] :
                ids \in { f \in [1..n -> DOMAIN ScoreRecords] :
                            \A i, j \in 1..n : f[i] = f[j] => i = j } } :
            n \in 0..MaxScored }
      \cup Reorderings(ScenarioA)

ScoreInit ==
    /\ embeddings \in ScoreStores
    /\ records = ScoreRecords
    /\ isAuthenticated = FALSE
    /\ pc = "idle"
    /\ tool = "none"
    /\ sv = SvIdle
    /\ emb = EmbIdle
    /\ resp = NoResp
    /\ hist = <<>>
    /\ calls = 0
    /\ search = SearchIdle
    /\ currentSessionId = 0

RankNext ==
    \/ SemanticSearch
    \/ SearchRank
    \/ FindWorkflow
    \/ FindRank
    \/ EmbedAttempt

RankSpec == RankInit /\ [][RankNext]_vars

ScoreSpec == ScoreInit /\ [][RankNext]_vars

(***************************************************************************)
(* The embedding store.                                                    *)
(***************************************************************************)
Init ==
    /\ embeddings = <<>>
    /\ records = <<>>
    /\ isAuthenticated = FALSE
    /\ pc = "idle"
    /\ tool = "none"
    /\ sv = SvIdle
    /\ emb = EmbIdle
    /\ resp = NoResp
    /\ hist = <<>>
    /\ calls = 0
    /\ search = SearchIdle
    /\ currentSessionId = 0

Next ==
    \/ SaveEmbeddingCall
    \/ CaptureObservation
    \/ SaveWorkflowTool
    \/ SaveLookup
    \/ EmbedAttempt
    \/ SaveCreate

Spec == Init /\ [][Next]_vars

\* Saves, then one search over the store they left.
SaveSearchNext ==
    \/ SaveEmbeddingCall
    \/ CaptureObservation
    \/ SaveWorkflowTool
    \/ SaveLookup
    \/ EmbedAttempt
    \/ SaveCreate
    \/ SemanticSearchDefaults
    \/ SearchRank

SaveSearchSpec == Init /\ [][SaveSearchNext]_vars

\* Every awaited provider call returns or throws, and pRetry's timer fires.
FairSpec == Spec /\ WF_vars(EmbedAttempt)

(***************************************************************************)
(* Properties of the embedding store.                                      *)
(***************************************************************************)
\* Stored embeddings of a sourceId with a contentHash, in a collection.
WithHash(coll, sourceId, contentHash) ==
    Count(coll, LAMBDA e : e.source_id = sourceId /\ e.content_hash = contentHash)

\* Stored embeddings of a source (sourceType, sourceId), in a collection.
OfSource(coll, sourceType, sourceId) ==
    Count(coll, LAMBDA e : e.source_type = sourceType /\ e.source_id = sourceId)

SameSkipKey(h, g) ==
    /\ h.onExisting = "skip" /\ g.onExisting = "skip"
    /\ h.sourceId = g.sourceId /\ h.content = g.content

SameSource(h, g) ==
    h.sourceType = g.sourceType /\ h.sourceId = g.sourceId

\* C2: once a replace save has stored an embedding for a source, every later
\* replace save of that source leaves exactly one stored embedding for it,
\* and that one carries the contentHash and the vector of the text saved last.
C2_ReplaceKeepsExactlyOne ==
    \A i \in DOMAIN hist, j \in DOMAIN hist :
        (/\ i < j
         /\ hist[i].onExisting = "replace" /\ hist[j].onExisting = "replace"
         /\ SameSource(hist[i], hist[j])
         /\ hist[i].outcome = "saved") =>
            /\ OfSource(hist[j].after, hist[j].sourceType, hist[j].sourceId) = 1
            /\ \A k \in DOMAIN hist[j].after :
                  LET e == hist[j].after[k] IN
                  (e.source_type = hist[j].sourceType
                     /\ e.source_id = hist[j].sourceId) =>
                      /\ e.content_hash = hashContent(hist[j].content)
                      /\ e.vector = ProviderVector(hist[j].content)

\* C3: saveEmbedding never raises to its caller, whatever fails inside it, and
\* a capture whose entity write succeeded does not end as an error.
C3_SaveNeverRaises ==
    /\ \A j \in DOMAIN hist : ~hist[j].raised
    /\ resp.status # "threw"
    /\ resp.written => resp.status \in {"ok", "pending"}
    /\ (resp.written /\ pc = "idle") => resp.status = "ok"

\* A save started by a capture has failed inside (at the provider or at the
\* database) after the entity was written, and the capture stands as a success.
C3_Witness ==
    /\ pc = "idle"
    /\ resp.written
    /\ resp.status = "ok"
    /\ Len(hist) = 2
    /\ hist[1].outcome = "failed" /\ hist[1].failedAt = "provider"
    /\ hist[2].outcome = "failed" /\ hist[2].failedAt = "create"
    /\ tool = "capture_observation"

(***************************************************************************)
(* Properties of createEmbedding.                                          *)
(***************************************************************************)
\* The failures C10 calls retryable: HTTP 429, HTTP 5xx, a connection reset.
RetryableFailure(e) ==
    e # Answered /\ (e.status = 429 \/ (e.status >= 500 /\ e.status <= 599) \/ e.reset)

C10_AtMostFourAttempts ==
    /\ emb.attempts <= 4
    /\ emb.status = "ok" => (emb.outcome = Answered /\ emb.vector = ProviderVector(emb.text))
    /\ emb.status = "failed" =>
          /\ emb.outcome # Answered
          /\ (emb.attempts = 4 \/ ~RetryableFailure(emb.outcome))
          /\ RetryableFailure(emb.outcome) => emb.error = emb.outcome
    /\ emb.status \in {"ok", "failed"} => emb.attempts >= 1

C10_AttemptOnlyAfterRetryable ==
    (emb'.attempts = emb.attempts + 1) =>
        /\ emb.status = "running"
        /\ emb.attempts > 0 => RetryableFailure(emb.outcome)

\* C10: createEmbedding calls the provider at most 4 times, starts a further
\* attempt only after a retryable failure, and always terminates, with the
\* vector of the first successful attempt or with the last error.
C10_BoundedRetriesTerminate ==
    /\ []C10_AtMostFourAttempts
    /\ [][C10_AttemptOnlyAfterRetryable]_vars
    /\ (emb.status = "running") ~> (emb.status \in {"ok", "failed"})

\* createEmbedding has failed three times retryably and answered at the fourth.
C10_Witness ==
    /\ emb.status = "ok"
    /\ emb.attempts = 4
    /\ emb.waits = <<1000, 2000, 4000>>

(***************************************************************************)
(* Properties of the ranker.                                               *)
(***************************************************************************)
\* A semantic_search has loaded the list, ranked and answered.
SemanticRanked ==
    pc = "idle" /\ search.kind = "semantic_search" /\ search.stage = "ranked"

HasNonNumeric(vector) == \E j \in DOMAIN vector : IsNaN(vector[j])

\* The similarity of stored embedding i to the query of the search.
RawSimilarity(i) ==
    cosineSimilarity(ProviderVector(search.input.query), embeddings[i].vector).value

\* Stored embedding i reaches the threshold step of the search with a number
\* for its similarity, and its owner record can be fetched.
Candidate(i) ==
    /\ embeddings[i].source_type \in search.sourceTypes
    /\ Len(embeddings[i].vector) = Len(ProviderVector(search.input.query))
    /\ ~HasNonNumeric(embeddings[i].vector)
    /\ ~IsNaN(RawSimilarity(i))
    /\ HasRecord(COLLECTION_MAP(embeddings[i].source_type),
                 embeddings[i].source_id)

Kept(i) == \E k \in DOMAIN search.scores : search.scores[k].embedding = i

Returned(i) == \E k \in DOMAIN resp.results : resp.results[k].embedding = i

\* The threshold C4 states, in hundredths: the supplied value, or 0.7.
StatedThreshold == Nullish(search.input.threshold, 70)

\* C4: the threshold step of semantic_search keeps a candidate if and only if
\* its rawSimilarity is at least the threshold, which is the value the caller
\* supplied (0 included) or 0.7 when none was supplied; every returned entry
\* has rawSimilarity >= threshold.
C4_KeptIffAtLeastThreshold ==
    SemanticRanked =>
        \A i \in DOMAIN embeddings :
            Candidate(i) =>
                /\ Kept(i) <=> RawSimilarity(i) >= StatedThreshold * (SCALE \div 100)
                /\ Returned(i) => RawSimilarity(i) >= StatedThreshold * (SCALE \div 100)

\* A ranking operation has got its query vector and the list of embeddings.
RankingPassRan == pc = "idle" /\ search.stage \in {"ranked", "aborted"}

\* Stored embedding i is in the list the ranking operation loads.
Loaded(i) ==
    IF search.kind = "find_workflow"
    THEN embeddings[i].source_type = "workflow"
    ELSE embeddings[i].source_type \in search.sourceTypes

\* C5: in semantic_search and in find_workflow, a stored embedding whose
\* vector is an empty array never appears in the ranked results and does not
\* abort the ranking pass: the operation answers, and every other embedding
\* that reaches the tool's threshold with an owner on record is still scored.
C5_EmptyVectorSkippedWithoutAbort ==
    (RankingPassRan
       /\ \E i \in DOMAIN embeddings : Loaded(i) /\ Len(embeddings[i].vector) = 0) =>
        /\ resp.status = "ok"
        /\ \A i \in DOMAIN embeddings :
              Len(embeddings[i].vector) = 0 => ~Kept(i) /\ ~Returned(i)
        /\ \A i \in DOMAIN embeddings :
              (/\ Loaded(i)
               /\ Len(embeddings[i].vector) = Len(ProviderVector(search.input.query))
               /\ Ge(RawSimilarity(i), search.threshold * (SCALE \div 100))
               /\ HasRecord(COLLECTION_MAP(embeddings[i].source_type),
                            embeddings[i].source_id)) => Kept(i)

\* C6: a stored embedding whose vector has a non-numeric entry is skipped by
\* semantic_search before scoring: it gets no similarity and no final score,
\* and it does not appear in the results.
C6_NonNumericVectorExcluded ==
    SemanticRanked =>
        \A i \in DOMAIN embeddings :
            HasNonNumeric(embeddings[i].vector) => ~Kept(i) /\ ~Returned(i)

\* The limit C7 states: the supplied value, or 5.
StatedLimit == Nullish(search.input.limit, 5)

\* C7: the list semantic_search returns is the first `limit` (default 5) of
\* the qualifying candidates in descending order of finalScore: the returned
\* final scores are non-increasing, no omitted qualifying candidate has a
\* higher finalScore than a returned one, and the list has
\* min(limit, number of qualifying candidates) entries.
C7_FirstLimitByFinalScore ==
    SemanticRanked =>
        LET results == resp.results
            qualifying == search.scores
        IN  /\ \A i, j \in DOMAIN results :
                  i < j => Ge(results[i].final_score, results[j].final_score)
            /\ \A k \in DOMAIN qualifying, i \in DOMAIN results :
                  ~Returned(qualifying[k].embedding) =>
                      ~Lt(results[i].final_score, qualifying[k].finalScore)
            /\ Len(results) = Min(StatedLimit, Len(qualifying))

\* The weights the caller supplied, in hundredths (the defaults where none).
\* The handler of semantic_search has computed its weights.
SemanticHandlerRan ==
    search.kind = "semantic_search" /\ search.stage # "invalid"

SuppliedRecencyWeight == Nullish(search.input.recency_weight, 30)

SuppliedImportanceWeight == Nullish(search.input.importance_weight, 20)

WeightSum ==
    search.similarityWeight + search.recencyWeight + search.importanceWeight

NonRetryableFailure(e) ==
    e.api /\ e.status >= 400 /\ e.status <= 499 /\ e.status # 429

C12_QueryEmbeddingFailureIsError ==
    [][(pc = "search_embed" /\ emb.status = "failed") =>
          /\ pc' = "idle"
          /\ resp'.tool = "semantic_search"
          /\ resp'.status = "error"
          /\ resp'.results = <<>> /\ resp'.total = 0
          /\ ~search'.listed
          /\ search'.scores = <<>>
          /\ embeddings' = embeddings]_vars

\* A semantic_search over a store that holds embeddings has ended as an error
\* because the provider failed its query.
C12_Witness ==
    /\ pc = "idle"
    /\ search.kind = "semantic_search"
    /\ resp.status = "error" /\ resp.error = "provider"
    /\ ~search.listed
    /\ Len(embeddings) > 0

\* The owner record of stored embedding i is on record.
OwnerOnRecord(i) ==
    LET id == embeddings[i].source_id
    IN  /\ id \in DOMAIN records
        /\ records[id].exists
        /\ records[id].coll = COLLECTION_MAP(embeddings[i].source_type)

SameLengthAsQuery(i) ==
    Len(embeddings[i].vector) = Len(ProviderVector(search.input.query))

\* C13: in semantic_search a per-candidate failure never aborts the batch: a
\* candidate whose owner record is deleted or whose stored vector differs in
\* length from the query vector is left out of the results, and every other
\* candidate that reaches the threshold is still scored, and returned when it
\* is among the first `limit` and its record is fetched again.
C13_CandidateFailureSkipsOnlyIt ==
    (pc = "idle" /\ search.kind = "semantic_search" /\ search.listed
       /\ resp.error # "database") =>
        /\ search.stage = "ranked" /\ resp.status = "ok"
        /\ \A i \in DOMAIN embeddings :
              (~OwnerOnRecord(i) \/ ~SameLengthAsQuery(i)) =>
                  ~Kept(i) /\ ~Returned(i)
        /\ \A i \in DOMAIN embeddings :
              (/\ Loaded(i) /\ OwnerOnRecord(i) /\ SameLengthAsQuery(i)
               /\ Ge(RawSimilarity(i), search.threshold * (SCALE \div 100))) =>
                  Kept(i)
        /\ \A k \in DOMAIN search.scores :
              Returned(search.scores[k].embedding) <=>
                  (k <= search.limit /\ k # search.lost)

\* A search over a store holding an embedding of a deleted owner, one of
\* another length and a valid one has returned the valid one.
C13_Witness ==
    /\ SemanticRanked
    /\ \E i \in DOMAIN embeddings : Loaded(i) /\ ~OwnerOnRecord(i)
    /\ \E i \in DOMAIN embeddings :
          Loaded(i) /\ ~SameLengthAsQuery(i) /\ Len(embeddings[i].vector) > 0
    /\ \E i \in DOMAIN embeddings : Returned(i)

(***************************************************************************)
(* Properties of the capture tools.                                        *)
(***************************************************************************)
SaveRunning == pc \in {"save_lookup", "save_embed"}

\* C14: a capture operation starts the embedding save only after its entity
\* write has succeeded, and has returned its response by then: the response
\* does not wait for the save to complete and does not observe its errors.
C14_CaptureRespondsBeforeSave ==
    tool \in {"capture_observation", "save_workflow"} =>
        /\ SaveRunning => resp.written
        /\ ~resp.written => (pc = "idle" /\ resp.status = "error")
        /\ SaveRunning => resp.status = "ok"
        /\ \A j \in DOMAIN hist : ~hist[j].raised

(***************************************************************************)
(* Scoring of the candidates (ScoreSpec).                                  *)
(***************************************************************************)
\* The owner record of entry k of `scores`.
OwnerOfScore(k) == records[search.scores[k].sourceId]

\* The importance score, in hundredths, by the stated precedence.
StatedImportance(record, sourceType) ==
    IF record.importance # <<>> THEN 25 * (record.importance[1] - 1)
    ELSE IF record.strength # <<>> THEN 25 * (record.strength[1] - 1)
    ELSE IF sourceType = "decision" THEN (IF record.outcome # "" THEN 80 ELSE 50)
    ELSE IF sourceType = "workflow"
    THEN (IF record.execution_count = <<>> THEN 30
          ELSE IF record.execution_count[1] >= 7 THEN 100
          ELSE 30 + 10 * record.execution_count[1])
    ELSE 50

\* C15: the importanceScore of every scored candidate is (importance-1)/4 when
\* its owner has an importance, else (strength-1)/4 when it has a strength,
\* else 0.8 / 0.5 for a decision with / without an outcome, else
\* min(1, 0.3 + 0.1 * executionCount) for a workflow, else 0.5.
C15_ImportanceByPrecedence ==
    SemanticRanked =>
        \A k \in DOMAIN search.scores :
            search.scores[k].importanceScore
                = StatedImportance(OwnerOfScore(k), search.scores[k].sourceType)

\* A search scored a decision with an outcome at 0.8 and a workflow run nine
\* times at 1.
C15_Witness ==
    /\ SemanticRanked
    /\ \E k, l \in DOMAIN search.scores :
          /\ search.scores[k].sourceType = "decision"
          /\ OwnerOfScore(k).outcome # ""
          /\ search.scores[k].importanceScore = 80
          /\ search.scores[l].sourceType = "workflow"
          /\ OwnerOfScore(l).execution_count = <<9>>
          /\ search.scores[l].importanceScore = 100

\* C16: the importanceScore of every candidate scored by semantic_search lies
\* in [0, 1], whatever the fields of its owner record hold.
C16_ImportanceScoreInUnitRange ==
    SemanticRanked =>
        \A k \in DOMAIN search.scores :
            /\ search.scores[k].importanceScore >= 0
            /\ search.scores[k].importanceScore <= 100

\* Entries k and l of `scores` have the same raw similarity and the same
\* importance score, and the owner of k was created more recently.
NewerTwin(k, l) ==
    /\ search.scores[k].similarity = search.scores[l].similarity
    /\ search.scores[k].importanceScore = search.scores[l].importanceScore
    /\ OwnerOfScore(k).age < OwnerOfScore(l).age

\* C17: with a positive recencyWeight, of two scored candidates with the same
\* raw similarity and the same importanceScore the one whose owner was created
\* more recently is ranked ahead of the older one, whatever the order in which
\* their embeddings are stored.
C17_NewerRankedAhead ==
    (SemanticRanked /\ search.recencyWeight > 0) =>
        \A k, l \in DOMAIN search.scores : NewerTwin(k, l) => k < l

\* Scenario A: owners aged 1, 15 and 60 days, stored in any order, are
\* returned in the order 1-day, 15-day, 60-day.
ScenarioAInOrder ==
    (/\ SemanticRanked
     /\ search.recencyWeight > 0
     /\ embeddings \in Reorderings(ScenarioA)
     /\ search.lost = 0) =>
        \A k \in DOMAIN resp.results : resp.results[k].id = ScenarioA[k].source_id

\* The recencyScore the search computed for entry k of `scores`, unrounded.
RecencyOfScore(k) == recencyScoreOf(OwnerOfScore(k), search.decayDays)

\* Of two scored candidates the one with the older owner has the strictly
\* smaller recencyScore.
OlderScoresLower ==
    SemanticRanked =>
        \A k, l \in DOMAIN search.scores :
            OwnerOfScore(k).age > OwnerOfScore(l).age
                => RecencyOfScore(k) < RecencyOfScore(l)

\* C18: for fixed decayDays the recencyScore computed by semantic_search is
\* strictly smaller for an older owner than for a newer one, and it is in
\* (0, 1] for every owner record.
C18_RecencyDecreasingInUnitRange ==
    /\ OlderScoresLower
    /\ SemanticRanked =>
          \A k \in DOMAIN search.scores :
              RecencyOfScore(k) > 0 /\ RecencyOfScore(k) <= SCALE

(***************************************************************************)
(* cosineSimilarity on vectors of different lengths (RankSpec).            *)
(***************************************************************************)
\* Stored embedding i and the embedding of query q differ in length.
MismatchedLength(i, q) ==
    Len(embeddings[i].vector) # Len(ProviderVector(q))

FindWorkflowRan ==
    /\ pc = "idle"
    /\ search.kind = "find_workflow"
    /\ search.stage \in {"ranked", "aborted"}

\* C19: cosineSimilarity raises the length-mismatch error whenever its two
\* vectors differ in length and then returns no number: the call throws for
\* every stored vector whose length differs from the query's, semantic_search
\* scores no such vector, find_workflow, which does not catch, fails with the
\* error's message, and the step in which it is raised changes no stored record.
C19_LengthMismatchRaises ==
    /\ [](\A i \in DOMAIN embeddings : \A q \in Texts :
            MismatchedLength(i, q)
                => cosineSimilarity(ProviderVector(q), embeddings[i].vector).threw)
    /\ [](SemanticRanked =>
            \A i \in DOMAIN embeddings :
                MismatchedLength(i, search.input.query) => ~Kept(i))
    /\ []((/\ FindWorkflowRan
            /\ \E i \in DOMAIN embeddings :
                  /\ embeddings[i].source_type = "workflow"
                  /\ MismatchedLength(i, search.input.query))
              => (/\ search.stage = "aborted"
                  /\ resp.status = "error"
                  /\ resp.error = "Vectors must have the same length"))
    /\ [][search'.stage = "aborted" => UNCHANGED <<embeddings, records>>]_vars

\* A find_workflow met a stored workflow vector of length 3 with its query
\* vector of length 2 and failed with the length-mismatch error.
C19_Witness ==
    /\ FindWorkflowRan
    /\ search.stage = "aborted"
    /\ resp.error = "Vectors must have the same length"
    /\ \E i \in DOMAIN embeddings :
          /\ embeddings[i].source_type = "workflow"
          /\ Len(embeddings[i].vector) = 3

(***************************************************************************)
(* The registry wrapper around the handlers (RankSpec).                    *)
(***************************************************************************)
\* The arguments break the schema of the tool: a limit outside 1..20, a
\* threshold outside [0, 1] or an empty query.
BreaksSchema(args) ==
    \/ args.query = ""
    \/ args.limit # <<>> /\ (args.limit[1] < 1 \/ args.limit[1] > 20)
    \/ /\ "threshold" \in DOMAIN args
       /\ args.threshold # <<>>
       /\ (args.threshold[1] < 0 \/ args.threshold[1] > 100)

\* The step is a call of a tool through the wrapper.
ToolCalled == calls' = calls + 1

\* C20: for a tool invoked through the registry wrapper the input is validated
\* before the handler runs; when validation fails the handler is not invoked
\* (no authentication, no provider call, no write) and the response has
\* isError; when the handler throws, at once or later, the response has
\* isError too; every finished call has a response, so the wrapper never
\* throws.
C20_WrapperValidatesAndCatches ==
    /\ [][(ToolCalled /\ BreaksSchema(search'.input))
            => (/\ resp'.status = "error"
                /\ resp'.error = "Validation error"
                /\ pc' = "idle"
                /\ UNCHANGED <<isAuthenticated, emb, embeddings, records>>)]_vars
    /\ [][(ToolCalled /\ ~BreaksSchema(search'.input))
            => (/\ resp'.error # "Validation error"
                /\ search'.stage = "started")]_vars
    /\ []((pc = "idle" /\ tool # "none")
            => (/\ resp.tool = tool
                /\ resp.status \in {"ok", "error"}
                /\ (search.stage # "ranked") = (resp.status = "error")))

\* A call with limit 0 was answered with a validation error, and nothing of
\* the handler had run.
C20_Witness ==
    /\ pc = "idle"
    /\ tool \in {"semantic_search", "find_workflow"}
    /\ search.input.limit = <<0>>
    /\ resp.status = "error"
    /\ resp.error = "Validation error"
    /\ ~isAuthenticated
    /\ emb = EmbIdle

(***************************************************************************)
(* The task tools (tools/tasks.ts).  In TaskSpec `records` is the 'tasks'  *)
(* collection; every other variable but isAuthenticated, tool and resp     *)
(* keeps its initial value.                                                *)
(***************************************************************************)
TaskStatusEnum == {"pending", "in_progress", "done", "blocked", "cancelled"}

\* The record create_task writes (lines 76-86).
NewTask == [coll |-> "tasks", status |-> "pending", completed_at |-> FALSE]

\* updateData of lines 114-127 applied to the stored task by
\* pb.collection('tasks').update: input.status is <<>> when not given.
UpdatedTask(existing, input) ==
    IF input.status = <<>> THEN existing
    ELSE [existing EXCEPT !.status = input.status[1],
                          !.completed_at = (@ \/ input.status[1] = "done")]

TaskFrame ==
    UNCHANGED <<embeddings, pc, sv, emb, hist, calls, search, currentSessionId>>

CreateTask ==
    /\ Len(records) < MaxTasks
    /\ \E authOk \in BOOLEAN, createOk \in BOOLEAN :
        /\ isAuthenticated' = (isAuthenticated \/ authOk)
        /\ IF (isAuthenticated \/ authOk) /\ createOk
           THEN /\ records' = Append(records, NewTask)
                /\ resp' = [NoResp EXCEPT !.tool = "create_task", !.status = "ok",
                                          !.id = Len(records) + 1,
                                          !.written = TRUE]
           ELSE /\ Rejects("create_task", "database")
                /\ UNCHANGED records
    /\ tool' = "create_task"
    /\ TaskFrame

\* update_task (lines 107-142): getOne throws for an unknown task_id.
UpdateTask ==
    /\ \E task_id \in 1..MaxTasks, status \in {<<>>} \cup {<<t>> : t \in TaskStatusEnum},
          authOk \in BOOLEAN, updateOk \in BOOLEAN :
        LET input == [task_id |-> task_id, status |-> status]
        IN  /\ isAuthenticated' = (isAuthenticated \/ authOk)
            /\ IF ~(isAuthenticated \/ authOk)
               THEN Rejects("update_task", "auth") /\ UNCHANGED records
               ELSE IF task_id \notin DOMAIN records
               THEN Rejects("update_task", "not found") /\ UNCHANGED records
               ELSE IF ~updateOk
               THEN Rejects("update_task", "database") /\ UNCHANGED records
               ELSE /\ records' = [records EXCEPT
                                     ![task_id] = UpdatedTask(@, input)]
                    /\ resp' = [NoResp EXCEPT !.tool = "update_task",
                                              !.status = "ok", !.id = task_id,
                                              !.written = TRUE]
    /\ tool' = "update_task"
    /\ TaskFrame

TaskInit == Init

TaskNext ==
    \/ CreateTask
    \/ UpdateTask

TaskSpec == TaskInit /\ [][TaskNext]_vars

\* C21: update_task enforces the task status lifecycle: there are statuses s
\* and t such that update_task with status t on a stored task in status s is
\* rejected and leaves the task in s, also when the database works.
C21_SomeTransitionRejected ==
    \E s, t \in TaskStatusEnum :
        /\ s # t
        /\ \A i \in DOMAIN records :
              records[i].status = s
                => UpdatedTask(records[i], [task_id |-> i, status |-> <<t>>]).status = s

(***************************************************************************)
(* What saves do to the embeddings collection (Spec).                      *)
(***************************************************************************)
\* new is old with one record created at the end.
IsCreate(old, new) ==
    Len(new) = Len(old) + 1 /\ \A j \in DOMAIN old : new[j] = old[j]

\* new is old with one record deleted.
IsDelete(old, new) ==
    /\ Len(new) = Len(old) - 1
    /\ \E i \in DOMAIN old :
          \A j \in DOMAIN new : new[j] = (IF j < i THEN old[j] ELSE old[j + 1])

\* The record has the fields a create gave it for some text.
AsCreated(e) ==
    \E text \in Texts :
        e = NewEmbedding(e.source_type, e.source_id, hashContent(text),
                         ProviderVector(text))

\* C23: an embedding record is never modified in place: every step leaves the
\* collection as it is, creates one record or deletes one record, a delete
\* happens only under the replace policy, and every stored embedding has the
\* sourceType, sourceId, contentHash, vector and model of its creation.
C23_OnlyCreateAndDelete ==
    /\ [][\/ embeddings' = embeddings
          \/ IsCreate(embeddings, embeddings')
          \/ IsDelete(embeddings, embeddings') /\ sv.onExisting = "replace"]_vars
    /\ [](\A i \in DOMAIN embeddings : AsCreated(embeddings[i]))

\* A replace save found the embedding of an earlier text, deleted it and
\* stored the one of the new text.
C23_Witness ==
    /\ pc = "idle"
    /\ \E j \in DOMAIN hist :
          /\ hist[j].onExisting = "replace"
          /\ hist[j].lookup = "found"
          /\ hist[j].outcome = "saved"
          /\ Len(hist[j].after) = Len(hist[j].before)
          /\ hist[j].after # hist[j].before

\* Stored embeddings of a sourceId, in a collection.
OfSourceId(coll, sourceId) == Count(coll, LAMBDA e : e.source_id = sourceId)

\* C24: a skip save that does not fail, for a sourceId none of whose stored
\* embeddings has the contentHash of the text, adds exactly one embedding (the
\* one of the text) and removes none: the older embeddings of the sourceId
\* stay, and their number grows by one.
C24_SkipSaveAddsAndKeepsOld ==
    \A j \in DOMAIN hist :
        LET h == hist[j] IN
        (/\ h.onExisting = "skip"
         /\ h.outcome # "failed"
         /\ WithHash(h.before, h.sourceId, hashContent(h.content)) = 0) =>
            /\ h.outcome = "saved"
            /\ IsCreate(h.before, h.after)
            /\ h.after[Len(h.after)]
                 = NewEmbedding(h.sourceType, h.sourceId, hashContent(h.content),
                                ProviderVector(h.content))
            /\ OfSourceId(h.after, h.sourceId) = OfSourceId(h.before, h.sourceId) + 1

\* Two skip saves of one sourceId with two texts have left two embeddings
\* for it.
C24_Witness ==
    /\ pc = "idle"
    /\ Len(hist) = 2
    /\ hist[1].onExisting = "skip" /\ hist[2].onExisting = "skip"
    /\ hist[1].sourceId = hist[2].sourceId
    /\ hist[1].content # hist[2].content
    /\ hist[1].outcome = "saved" /\ hist[2].outcome = "saved"
    /\ OfSourceId(embeddings, hist[2].sourceId) = 2

\* Embedding e belongs to the source of the running save.
OfRunningSave(e) ==
    e.source_type = sv.sourceType /\ e.source_id = sv.sourceId

\* The step in which a replace save finishes its lookup and delete and calls
\* the provider.
ReplaceProceeds ==
    pc = "save_lookup" /\ pc' = "save_embed" /\ sv.onExisting = "replace"

\* C25: a replace save for (sourceType, sourceId) deletes the stored embedding
\* its lookup finds for that source whatever its contentHash, never deletes an
\* embedding of another sourceType or sourceId, and then calls the provider
\* for the text and, when provider and create succeed, stores a fresh
\* embedding, also when the text is unchanged.
C25_ReplaceDeletesOwnThenEmbeds ==
    /\ [][ReplaceProceeds =>
            /\ \/ embeddings' = embeddings
               \/ /\ IsDelete(embeddings, embeddings')
                  /\ \A i \in DOMAIN embeddings :
                        ~OfRunningSave(embeddings[i])
                            => \E k \in DOMAIN embeddings' :
                                   embeddings'[k] = embeddings[i]
                  /\ OfSource(embeddings', sv.sourceType, sv.sourceId)
                       = OfSource(embeddings, sv.sourceType, sv.sourceId) - 1
            /\ (sv'.lookup = "found" /\ ~sv'.deleteFailed)
                  => IsDelete(embeddings, embeddings')
            /\ (sv'.lookup = "not_found")
                  => OfSource(embeddings, sv.sourceType, sv.sourceId) = 0
            /\ emb' = StartEmbedding(sv.content)]_vars
    /\ [](\A j \in DOMAIN hist :
            LET h == hist[j] IN
            (h.onExisting = "replace" /\ h.outcome = "saved") =>
                /\ h.embedCalls = 1
                /\ h.after[Len(h.after)]
                     = NewEmbedding(h.sourceType, h.sourceId,
                                    hashContent(h.content),
                                    ProviderVector(h.content)))
    /\ [](\A j \in DOMAIN hist :
            (hist[j].onExisting = "replace" /\ hist[j].failedAt \notin {"auth"})
                => hist[j].outcome # "skipped" /\ hist[j].embedCalls = 1)

\* A replace save of an unchanged text deleted the stored embedding, called
\* the provider again and stored a fresh embedding, while the embedding of
\* another source stayed.
C25_Witness ==
    /\ pc = "idle"
    /\ Len(hist) = 2
    /\ hist[2].onExisting = "replace"
    /\ hist[2].outcome = "saved"
    /\ hist[2].lookup = "found"
    /\ hist[2].embedCalls = 1
    /\ WithHash(hist[2].before, hist[2].sourceId, hashContent(hist[2].content)) = 1
    /\ OfSource(hist[2].before, hist[2].sourceType, hist[2].sourceId) = 1
    /\ OfSource(hist[2].after, hist[2].sourceType, hist[2].sourceId) = 1
    /\ Len(hist[2].after) = 1

\* C26: a save that ends in failure (authentication, provider or create),
\* under skip or under replace, leaves the stored embeddings exactly as they
\* were before the call.
C26_FailedSaveLeavesStore ==
    \A j \in DOMAIN hist :
        hist[j].outcome = "failed" => hist[j].after = hist[j].before

\* The same for the skip policy alone.
FailedSkipSaveLeavesStore ==
    \A j \in DOMAIN hist :
        (hist[j].outcome = "failed" /\ hist[j].onExisting = "skip")
            => hist[j].after = hist[j].before

(***************************************************************************)
(* A search over the store that saves have left (SaveSearchSpec).          *)
(***************************************************************************)
\* C27: in every result list of semantic_search each entity (sourceType,
\* sourceId) appears at most once, whatever saves preceded the search.
C27_EntityAtMostOnceInResults ==
    SemanticRanked =>
        \A k, l \in DOMAIN resp.results :
            (resp.results[k].type = resp.results[l].type
               /\ resp.results[k].id = resp.results[l].id) => k = l

(***************************************************************************)
(* Concurrent saves of one source and a concurrent search (ConcSpec).      *)
(* Every await of saveEmbedding and of semantic_search is a step of its    *)
(* own; the database and the provider answer, so what fails, fails because *)
(* of the interleaving.  Here `sv` maps each saving call to its state,     *)
(* `embeddings` holds records with their id, `hist` every embedding ever   *)
(* created, `search` the searching call; pc, tool, emb and calls rest.     *)
(***************************************************************************)
ConcSavers == {"p1", "p2"}

ConcSource == <<"observation", 1>>

\* The record pb.collection('embeddings').create returns: the fields and an id.
StoredEmbedding(id, content) ==
    [id |-> id] @@ NewEmbedding(ConcSource[1], ConcSource[2],
                                hashContent(content), ProviderVector(content))

\* delete(existing.id) of a record another call has deleted throws.
DeleteMissRethrown == FALSE

\* The bare catch of lines 157-159 takes it for 'no existing embedding'.
DeleteMissSwallowed == TRUE

ConcSave(onExisting, content) ==
    [pc |-> "lookup", onExisting |-> onExisting, content |-> content,
     existing |-> 0, missed |-> FALSE, outcome |-> "running"]

ConcInit ==
    /\ embeddings \in {<<>>, <<StoredEmbedding(1, "a")>>}
    /\ hist = embeddings
    /\ records = <<[OwnerRecord("observations", "", "a", 0)
                      EXCEPT !.importance = <<3>>]>>
    /\ sv \in [ConcSavers ->
                 {ConcSave(o, c) : o \in {"skip", "replace"}, c \in Texts}]
    /\ \E query \in Texts :
          search = SemanticLocals([query |-> query, collections |-> <<>>,
                                   threshold |-> <<>>, limit |-> <<>>,
                                   recency_weight |-> <<>>,
                                   importance_weight |-> <<>>,
                                   decay_days |-> <<>>])
    /\ isAuthenticated = TRUE
    /\ pc = "idle"
    /\ tool = "none"
    /\ emb = EmbIdle
    /\ resp = NoResp
    /\ calls = 0
    /\ currentSessionId = 0

ConcFrame ==
    UNCHANGED <<records, isAuthenticated, pc, tool, emb, calls, currentSessionId>>

\* getFirstListItem of lines 141 and 152.
ConcLookup(p) ==
    /\ sv[p].pc = "lookup"
    /\ LET contentHash == hashContent(sv[p].content)
           Matches(e) ==
               IF sv[p].onExisting = "skip"
               THEN SkipFilter(e, ConcSource[1], ConcSource[2], contentHash)
               ELSE ReplaceFilter(e, ConcSource[1], ConcSource[2], contentHash)
           existing == FirstIndex(embeddings, Matches)
       IN  sv' = [sv EXCEPT ![p] =
                    IF existing = 0 THEN [@ EXCEPT !.pc = "embed"]
                    ELSE IF @.onExisting = "skip"
                    THEN [@ EXCEPT !.pc = "done", !.outcome = "skipped"]
                    ELSE [@ EXCEPT !.pc = "delete",
                                   !.existing = embeddings[existing].id]]
    /\ UNCHANGED <<embeddings, hist, search, resp>>
    /\ ConcFrame

\* delete(existing.id) of line 155.
ConcDelete(p) ==
    /\ sv[p].pc = "delete"
    /\ LET HasId(e) == e.id = sv[p].existing
           at == FirstIndex(embeddings, HasId)
       IN  IF at # 0
           THEN /\ embeddings' = RemoveAt(embeddings, at)
                /\ sv' = [sv EXCEPT ![p].pc = "embed"]
           ELSE /\ UNCHANGED embeddings
                /\ sv' = [sv EXCEPT ![p] =
                             IF DeleteMissSwallowed
                             THEN [@ EXCEPT !.pc = "embed", !.missed = TRUE]
                             ELSE [@ EXCEPT !.pc = "done", !.missed = TRUE,
                                            !.outcome = "failed"]]
    /\ UNCHANGED <<hist, search, resp>>
    /\ ConcFrame

\* createEmbedding of line 163 returns.
ConcEmbed(p) ==
    /\ sv[p].pc = "embed"
    /\ sv' = [sv EXCEPT ![p].pc = "create"]
    /\ UNCHANGED <<embeddings, hist, search, resp>>
    /\ ConcFrame

\* create of line 166.
ConcCreate(p) ==
    /\ sv[p].pc = "create"
    /\ LET e == StoredEmbedding(Len(hist) + 1, sv[p].content)
       IN  /\ embeddings' = Append(embeddings, e)
           /\ hist' = Append(hist, e)
    /\ sv' = [sv EXCEPT ![p].pc = "done", ![p].outcome = "saved"]
    /\ UNCHANGED <<search, resp>>
    /\ ConcFrame

ConcSaveStep == \E p \in ConcSavers :
    ConcLookup(p) \/ ConcDelete(p) \/ ConcEmbed(p) \/ ConcCreate(p)

\* semantic_search, lines 348-382: the list is loaded and scored.
ConcList ==
    /\ search.stage = "started"
    /\ LET scores == ScoresFrom(embeddings, 1,
                                ProviderVector(search.input.query), search)
       IN  search' = [search EXCEPT
                        !.scores = StableSortDesc(scores, "finalScore"),
                        !.stage = "scored", !.listed = TRUE]
    /\ UNCHANGED <<embeddings, hist, sv, resp>>
    /\ ConcFrame

\* semantic_search, lines 384-400: the owners are fetched again.
ConcResults ==
    /\ search.stage = "scored"
    /\ LET results == ResultsFrom(search.scores, 1, search.limit, 0)
       IN  resp' = [NoResp EXCEPT !.tool = "semantic_search", !.status = "ok",
                                 !.total = Len(results), !.results = results]
    /\ search' = [search EXCEPT !.stage = "ranked"]
    /\ UNCHANGED <<embeddings, hist, sv>>
    /\ ConcFrame

ConcNext ==
    \/ ConcSaveStep
    \/ ConcList
    \/ ConcResults

ConcSpec == ConcInit /\ [][ConcNext]_vars

SavesDone == \A p \in ConcSavers : sv[p].pc = "done"

\* C22: under every interleaving of two concurrent saves of one source (skip
\* or replace) with each other and with a concurrent semantic_search, no call
\* fails; once the saves are done the source has at least one embedding,
\* every stored embedding is one a create wrote, and all that can be wrong is
\* more than one embedding for the source, or a ranking that was computed
\* from embeddings stored at some time but no longer, or not yet, the latest.
C22_InterleavingOnlyDuplicatesOrStale ==
    /\ \A p \in ConcSavers : sv[p].outcome # "failed"
    /\ resp.status \in {"none", "ok"}
    /\ \A i \in DOMAIN embeddings :
          \E j \in DOMAIN hist : embeddings[i] = hist[j]
    /\ \A i, j \in DOMAIN embeddings : embeddings[i].id = embeddings[j].id => i = j
    /\ SavesDone =>
          /\ OfSource(embeddings, ConcSource[1], ConcSource[2]) >= 1
          /\ \A p \in ConcSavers :
                sv[p].outcome = "saved" =>
                    \E j \in DOMAIN hist : hist[j].content_hash = hashContent(sv[p].content)
    /\ search.stage = "ranked" =>
          \A k \in DOMAIN resp.results :
              /\ resp.results[k].type = ConcSource[1]
              /\ resp.results[k].id = ConcSource[2]
              /\ \E j \in DOMAIN hist :
                    resp.results[k].similarity
                      = Round(cosineSimilarity(ProviderVector(search.input.query),
                                               hist[j].vector).value,
                              SCALE \div 100)

\* Two replace saves found the same embedding; one deleted it, the delete of
\* the other met the missing record, both stored theirs, and the search that
\* ran meanwhile ranked the embedding that is no longer stored.
C22_Witness ==
    /\ SavesDone
    /\ search.stage = "ranked"
    /\ \A p \in ConcSavers : sv[p].outcome = "saved"
    /\ \E p \in ConcSavers : sv[p].missed
    /\ OfSource(embeddings, ConcSource[1], ConcSource[2]) = 2
    /\ resp.total = 1
    /\ \A i \in DOMAIN embeddings : embeddings[i].id # 1

(***************************************************************************)
(* The session tools (tools/session.ts).  In SessionSpec `records` is the  *)
(* 'sessions' collection; each call is one step, with the outcome of each  *)
(* of its database calls chosen by the environment.                        *)
(***************************************************************************)
SessionOutcomeEnum == {"success", "partial", "failed"}

\* The record create_session writes (lines 60-65).
NewSession == [coll |-> "sessions", outcome |-> "ongoing"]

SessionFrame == UNCHANGED <<embeddings, pc, sv, emb, hist, calls, search>>

\* currentSessionId after the try block of end_session, cleared whatever the
\* update did.
AfterEndAlwaysCleared(current, updateOk) == 0

\* currentSessionId after the try block of end_session (lines 93-112): line
\* 101 is reached only when the update of line 94 has returned.
AfterEnd(current, updateOk) == IF updateOk THEN 0 ELSE current

\* create_session (lines 43-80).
CreateSession ==
    /\ Len(records) < MaxSessions
    /\ \E authOk \in BOOLEAN, endOk \in BOOLEAN, createOk \in BOOLEAN :
        LET ended == IF currentSessionId # 0 /\ endOk
                     THEN [records EXCEPT ![currentSessionId].outcome = "partial"]
                     ELSE records
        IN  /\ isAuthenticated' = (isAuthenticated \/ authOk)
            /\ IF ~(isAuthenticated \/ authOk)
               THEN /\ Rejects("create_session", "auth")
                    /\ UNCHANGED <<records, currentSessionId>>
               ELSE IF ~createOk
               THEN /\ Rejects("create_session", "database")
                    /\ records' = ended
                    /\ UNCHANGED currentSessionId
               ELSE /\ records' = Append(ended, NewSession)
                    /\ currentSessionId' = Len(records) + 1
                    /\ resp' = [NoResp EXCEPT !.tool = "create_session",
                                              !.status = "ok",
                                              !.id = Len(records) + 1,
                                              !.written = TRUE]
    /\ tool' = "create_session"
    /\ SessionFrame

\* end_session (lines 82-113).  `written` is the success field of the answer.
EndSession ==
    /\ \E outcome \in {<<>>} \cup {<<o>> : o \in SessionOutcomeEnum},
          authOk \in BOOLEAN, updateOk \in BOOLEAN :
        IF currentSessionId = 0
        THEN /\ resp' = [NoResp EXCEPT !.tool = "end_session", !.status = "ok",
                                       !.written = FALSE]
             /\ UNCHANGED <<records, currentSessionId, isAuthenticated>>
        ELSE /\ isAuthenticated' = (isAuthenticated \/ authOk)
             /\ IF ~(isAuthenticated \/ authOk)
                THEN /\ Rejects("end_session", "auth")
                     /\ UNCHANGED <<records, currentSessionId>>
                ELSE /\ records' =
                          IF updateOk
                          THEN [records EXCEPT ![currentSessionId].outcome =
                                    IF outcome = <<>> THEN "success"
                                    ELSE outcome[1]]
                          ELSE records
                     /\ currentSessionId' = AfterEnd(currentSessionId, updateOk)
                     /\ IF updateOk
                        THEN resp' = [NoResp EXCEPT !.tool = "end_session",
                                                   !.status = "ok",
                                                   !.id = currentSessionId,
                                                   !.written = TRUE]
                        ELSE Rejects("end_session", "database")
    /\ tool' = "end_session"
    /\ SessionFrame

\* get_current_session (lines 115-149).
GetCurrentSession ==
    /\ \E authOk \in BOOLEAN, getOk \in BOOLEAN :
        IF currentSessionId = 0
        THEN /\ resp' = [NoResp EXCEPT !.tool = "get_current_session",
                                       !.status = "ok"]
             /\ UNCHANGED <<currentSessionId, isAuthenticated>>
        ELSE /\ isAuthenticated' = (isAuthenticated \/ authOk)
             /\ IF ~(isAuthenticated \/ authOk)
                THEN /\ Rejects("get_current_session", "auth")
                     /\ UNCHANGED currentSessionId
                ELSE /\ currentSessionId' = IF getOk THEN currentSessionId ELSE 0
                     /\ resp' = [NoResp EXCEPT !.tool = "get_current_session",
                                      !.status = "ok",
                                      !.id = IF getOk THEN currentSessionId ELSE 0]
    /\ tool' = "get_current_session"
    /\ UNCHANGED records
    /\ SessionFrame

SessionInit == Init

SessionNext ==
    \/ CreateSession
    \/ EndSession
    \/ GetCurrentSession

SessionSpec == SessionInit /\ [][SessionNext]_vars

\* C28: between session calls, whatever database operations failed in them,
\* currentSessionId is null or the id of a session whose outcome is 'ongoing',
\* and no other session is still 'ongoing'.
C28_CurrentSessionIsTheOnlyOngoing ==
    /\ currentSessionId # 0 =>
          /\ currentSessionId \in DOMAIN records
          /\ records[currentSessionId].outcome = "ongoing"
    /\ \A i \in DOMAIN records :
          i # currentSessionId => records[i].outcome # "ongoing"

\* C29: end_session clears currentSessionId if and only if the update that
\* ends the session succeeded: with no current session it writes nothing and
\* answers success=false; when the update (or the connection) fails the error
\* is returned, nothing is written and currentSessionId stays; when it
\* succeeds the session carries the given outcome and currentSessionId is null.
C29_EndSessionClearsIffUpdated ==
    [][tool' = "end_session" =>
        /\ currentSessionId = 0 =>
              /\ records' = records
              /\ currentSessionId' = 0
              /\ resp'.status = "ok" /\ ~resp'.written
        /\ (currentSessionId # 0 /\ resp'.status = "error") =>
              /\ records' = records
              /\ currentSessionId' = currentSessionId
        /\ (currentSessionId # 0 /\ resp'.status = "ok") =>
              /\ resp'.written /\ resp'.id = currentSessionId
              /\ records'[currentSessionId].outcome \in SessionOutcomeEnum
              /\ \A i \in DOMAIN records :
                    i # currentSessionId => records'[i] = records[i]
              /\ currentSessionId' = 0
        /\ resp'.status \in {"ok", "error"}]_vars

\* An end_session whose update failed has left the current session current.
C29_Witness ==
    /\ tool = "end_session"
    /\ resp.status = "error"
    /\ resp.error = "database"
    /\ currentSessionId # 0
    /\ records[currentSessionId].outcome = "ongoing"

(***************************************************************************)
(* Concurrent record_workflow_execution calls on one workflow (ExecSpec).  *)
(* getOne and update are awaits of their own, so other calls run between   *)
(* them.  Here `records` holds the workflow, `hist` the workflow as it was *)
(* at the start, `sv` maps each call to its state; avg_duration is kept in *)
(* tenths of a minute, the precision line 290 rounds to.                   *)
(***************************************************************************)
ExecCallers == {"p1", "p2", "p3"}

DurationInputs == {<<>>, <<5>>}

ExecWorkflow(count, avg) ==
    [coll |-> "workflows", execution_count |-> count, avg_duration |-> avg,
     last_executed |-> FALSE]

ExecCall ==
    [pc |-> "getOne", currentCount |-> 0, newAvg |-> 0, outcome |-> "running"]

\* Lines 279-285 and the rounding of line 290, in tenths of a minute.
NewAvgDuration(currentAvg, currentCount, duration) ==
    IF duration = <<>> THEN currentAvg
    ELSE IF currentCount = 0 THEN 10 * duration[1]
    ELSE (2 * (currentAvg * currentCount + 10 * duration[1])
            + (currentCount + 1)) \div (2 * (currentCount + 1))

ExecInit ==
    /\ records \in {<<ExecWorkflow(0, 0)>>, <<ExecWorkflow(1, 30)>>}
    /\ hist = records
    /\ sv = [p \in ExecCallers |-> ExecCall]
    /\ embeddings = <<>>
    /\ search = SearchIdle
    /\ isAuthenticated = TRUE
    /\ pc = "idle"
    /\ tool = "none"
    /\ emb = EmbIdle
    /\ resp = NoResp
    /\ calls = 0
    /\ currentSessionId = 0

ExecFrame ==
    UNCHANGED <<embeddings, hist, search, isAuthenticated, pc, emb, calls,
                currentSessionId>>

\* getOne of line 273 and the locals of lines 275-285.
ExecGetOne(p) ==
    /\ sv[p].pc = "getOne"
    /\ \E getOk \in BOOLEAN, duration \in DurationInputs :
        IF getOk
        THEN /\ sv' = [sv EXCEPT ![p] =
                         [@ EXCEPT !.pc = "update",
                                   !.currentCount = records[1].execution_count,
                                   !.newAvg = NewAvgDuration(
                                       records[1].avg_duration,
                                       records[1].execution_count, duration)]]
             /\ UNCHANGED resp
        ELSE /\ sv' = [sv EXCEPT ![p] =
                         [@ EXCEPT !.pc = "done", !.outcome = "failed"]]
             /\ Rejects("record_workflow_execution", "database")
    /\ tool' = "record_workflow_execution"
    /\ UNCHANGED records
    /\ ExecFrame

\* update of lines 287-291 and the answer of lines 295-301.
ExecUpdate(p) ==
    /\ sv[p].pc = "update"
    /\ \E updateOk \in BOOLEAN :
        IF updateOk
        THEN /\ records' = [records EXCEPT ![1] =
                              [@ EXCEPT
                                 !.execution_count = sv[p].currentCount + 1,
                                 !.last_executed = TRUE,
                                 !.avg_duration = sv[p].newAvg]]
             /\ sv' = [sv EXCEPT ![p] =
                         [@ EXCEPT !.pc = "done", !.outcome = "recorded"]]
             /\ resp' = [NoResp EXCEPT !.tool = "record_workflow_execution",
                                       !.status = "ok", !.id = 1,
                                       !.written = TRUE,
                                       !.total = sv[p].currentCount + 1]
        ELSE /\ UNCHANGED records
             /\ sv' = [sv EXCEPT ![p] =
                         [@ EXCEPT !.pc = "done", !.outcome = "failed"]]
             /\ Rejects("record_workflow_execution", "database")
    /\ tool' = "record_workflow_execution"
    /\ ExecFrame

ExecNext == \E p \in ExecCallers : ExecGetOne(p) \/ ExecUpdate(p)

ExecSpec == ExecInit /\ [][ExecNext]_vars

ExecCompleted == Cardinality({p \in ExecCallers : sv[p].outcome = "recorded"})

\* C30: after n completed record_workflow_execution calls on one workflow, in
\* any interleaving of their reads and writes, execution_count is its initial
\* value plus n.
C30_CountIsInitialPlusCompleted ==
    records[1].execution_count = hist[1].execution_count + ExecCompleted
====
